---- MODULE Spec2Model ----
(***************************************************************************)
(* A model of webapp/main.py: the static router (file_path_for_route), the *)
(* request handler (AppHandler), the datagram relay (send_udp), the        *)
(* receive-parse-persist loop (run_socket_server, parse_form_bytes) and    *)
(* the supervisor of the two processes (main, run_http_server).            *)
(*                                                                         *)
(* Text is modelled as a sequence of tokens.  A token is a run of bytes    *)
(* that the code never looks inside ("alice", "index.html"), or one byte   *)
(* the code does act on ("/", "&", "=", "+"), or an escape ("%26"), or a   *)
(* byte that is no valid UTF-8 ("xFF"), or a NUL byte ("nul").  Adjacent   *)
(* tokens are adjacent bytes: <<"..", "sub">> is the file name "..sub",    *)
(* not the parent directory.                                               *)
(***************************************************************************)
EXTENDS Integers, Sequences, FiniteSets, TLC

VARIABLES
    fs,        \* the file system below BASE_DIR: which files are missing or unreadable
    arg,       \* the argument of the pure function under check (RouterSpec, ParseSpec)
    ret,       \* what that function returned
    last,      \* the request the Handler handled last, with its response
    nPosts,    \* datagrams the Relay was asked to send so far (their ids)
    chan,      \* datagrams queued at the Receiver's bound socket
    lost,      \* ids of datagrams that never reach the Receiver
    rxPc,      \* where run_socket_server stands
    rxDoc,     \* the document the Receiver is inserting
    rxLog,     \* the line the Receiver logged last
    now,       \* the Receiver's wall clock
    store,     \* the collection: the documents inserted, in order
    failed,    \* ids of datagrams whose insert raised
    storeUp,   \* whether the store accepts inserts
    stopped,   \* whether every process of the program was terminated from outside
    sent,      \* ids of the datagrams sendto put on the wire
    mainPc,    \* where main stands
    httpPc,    \* where run_http_server stands
    sig        \* the stop signal delivered to the program, "none" before

vars == <<fs, arg, ret, last, nPosts, chan, lost, rxPc, rxDoc, rxLog, now,
          store, failed, storeUp, stopped, sent, mainPc, httpPc, sig>>

(***************************************************************************)
(* Bounds of the model.                                                    *)
(***************************************************************************)
\* longest request path, in tokens, that RouterSpec enumerates
MaxPathLen == 4
\* most fields ("&"-separated chunks) of a payload that ParseSpec enumerates
MaxFields == 3
\* most POSTs to /message in one behaviour
MaxPosts == 2
\* most bytes (tokens) the process can allocate for one read
MaxAlloc == 8

(***************************************************************************)
(* Sequences.                                                              *)
(***************************************************************************)
Front(s) == SubSeq(s, 1, Len(s) - 1)

Last(s) == s[Len(s)]

Take(s, n) == SubSeq(s, 1, IF n < Len(s) THEN n ELSE Len(s))

IsProperPrefix(p, s) == Len(p) < Len(s) /\ SubSeq(s, 1, Len(p)) = p

SeqsUpTo(S, n) == UNION {[1..k -> S] : k \in 0..n}

\* str.split(sep): the pieces between the separators, empty pieces kept
RECURSIVE SplitAcc(_, _, _)
SplitAcc(s, sep, cur) ==
    IF s = <<>> THEN <<cur>>
    ELSE IF Head(s) = sep THEN <<cur>> \o SplitAcc(Tail(s), sep, <<>>)
    ELSE SplitAcc(Tail(s), sep, Append(cur, Head(s)))

Split(s, sep) == SplitAcc(s, sep, <<>>)

\* the index of the first sep in s, 0 when there is none
RECURSIVE IndexOf(_, _, _)
IndexOf(s, sep, i) ==
    IF i > Len(s) THEN 0
    ELSE IF s[i] = sep THEN i
    ELSE IndexOf(s, sep, i + 1)

(***************************************************************************)
(* The file system.  A file name is a sequence of tokens, a location a     *)
(* sequence of file names from the root.                                   *)
(***************************************************************************)
BASE_DIR == << <<"app">> >>

STATIC_DIR == BASE_DIR \o << <<"front-init">> >>

Under(dir, name) == dir \o << <<name>> >>

ERROR_PAGE == Under(STATIC_DIR, "error.html")

SubDir == Under(STATIC_DIR, "sub")

\* a file outside the static root, and a link to it inside the static root
Secret == Under(BASE_DIR, "secret")

LinkOut == Under(STATIC_DIR, "link_out")

\* a directory link inside the static root that leads to BASE_DIR
DirLinkOut == Under(STATIC_DIR, "up")

Links == {LinkOut, DirLinkOut}

LinkTarget(loc) == IF loc = LinkOut THEN Secret ELSE BASE_DIR

\* the regular files a complete installation holds
AllFiles ==
    {Under(STATIC_DIR, n) :
        n \in {"index.html", "message.html", "error.html", "style.css", "logo.png"}}
    \cup {Under(SubDir, "a.txt"), Under(SubDir, "error.html"), Secret}

\* the file systems the model starts from
FSConfigs ==
    { [missing |-> {}, unreadable |-> {}],
      [missing |-> {ERROR_PAGE}, unreadable |-> {}],
      [missing |-> {Under(STATIC_DIR, "style.css")},
       unreadable |-> {Under(SubDir, "a.txt")}],
      [missing |-> {}, unreadable |-> {ERROR_PAGE, Under(STATIC_DIR, "index.html")}] }

\* Path.is_file()
IsFile(loc) == loc \in AllFiles \ fs.missing

\* whether Path.read_bytes() returns (it raises OSError otherwise)
Readable(loc) == IsFile(loc) /\ loc \notin fs.unreadable

(***************************************************************************)
(* The static router.                                                      *)
(***************************************************************************)
\* the literal paths of the route table
P(name) == <<"/", name>>

Returned(loc) == [raised |-> FALSE, loc |-> loc]

Raised == [raised |-> TRUE, loc |-> <<>>]

\* str.lstrip("/")
RECURSIVE LStrip(_)
LStrip(s) == IF s # <<>> /\ Head(s) = "/" THEN LStrip(Tail(s)) ELSE s

\* the file names of a relative path: pathlib drops the empty ones
Names(s) == SelectSeq(Split(s, "/"), LAMBDA n : n # <<>>)

\* os.path.realpath, not strict: ".." steps up, a link is followed, a name
\* that does not exist is kept as it is written
RECURSIVE Realpath(_, _)
Realpath(cur, names) ==
    IF names = <<>> THEN cur
    ELSE IF Head(names) = <<"..">>
         THEN Realpath(IF cur = <<>> THEN cur ELSE Front(cur), Tail(names))
    ELSE LET new == Append(cur, Head(names)) IN
         IF new \in Links THEN Realpath(LinkTarget(new), Tail(names))
         ELSE Realpath(new, Tail(names))

\* Path.resolve() raises ValueError ("embedded null byte") on a NUL byte
HasNul(names) == \E i \in 1..Len(names) : \E j \in 1..Len(names[i]) : names[i][j] = "nul"

ContainedMutant(loc) == TRUE

\* STATIC_DIR in candidate_resolved.parents
Contained(loc) == IsProperPrefix(STATIC_DIR, loc)

file_path_for_routeMutant(route_path) ==
    LET names == Names(LStrip(route_path))
        candidate_resolved ==
            Realpath(STATIC_DIR, IF route_path = <<"/">> THEN << <<"index.html">> >>
                                 ELSE IF route_path = P("message")
                                      THEN << <<"message.html">> >>
                                 ELSE names)
    IN  IF HasNul(names) THEN Raised
        ELSE IF Contained(candidate_resolved) /\ IsFile(candidate_resolved)
        THEN Returned(candidate_resolved)
        ELSE Returned(ERROR_PAGE)

file_path_for_route(route_path) ==
    IF route_path \in {<<"/">>, P("index.html")}
    THEN Returned(Under(STATIC_DIR, "index.html"))
    ELSE IF route_path \in {P("message"), P("message.html")}
    THEN Returned(Under(STATIC_DIR, "message.html"))
    ELSE IF route_path = P("error.html") THEN Returned(ERROR_PAGE)
    ELSE IF route_path = P("style.css") THEN Returned(Under(STATIC_DIR, "style.css"))
    ELSE IF route_path = P("logo.png") THEN Returned(Under(STATIC_DIR, "logo.png"))
    ELSE LET safe == LStrip(route_path)
             names == Names(safe)
         IN  IF HasNul(names) THEN Raised
             ELSE LET candidate_resolved == Realpath(STATIC_DIR, names) IN
                  IF Contained(candidate_resolved) /\ IsFile(candidate_resolved)
                  THEN Returned(candidate_resolved)
                  ELSE Returned(ERROR_PAGE)

(***************************************************************************)
(* The form parser of the Receiver.                                        *)
(***************************************************************************)
\* bytes.decode("utf-8", errors="ignore"): bytes that are no UTF-8 are dropped
Decode(payload) == SelectSeq(payload, LAMBDA b : b # "xFF")

\* value.replace("+", " ") and unquote(): an escape becomes the byte it names
UnquoteToken(t) ==
    IF t = "+" THEN " " ELSE IF t = "%26" THEN "&" ELSE IF t = "%3D" THEN "=" ELSE t

Unquote(s) == [i \in 1..Len(s) |-> UnquoteToken(s[i])]

\* the (name, value) pair of one "&"-separated piece, as parse_qsl appends it
Pair(piece) ==
    LET i == IndexOf(piece, "=", 1) IN
    [name |-> Unquote(SubSeq(piece, 1, i - 1)),
     value |-> Unquote(SubSeq(piece, i + 1, Len(piece)))]

KeepsBlankMutant(piece) == IndexOf(piece, "=", 1) # 0

\* parse_qsl keeps a piece that has a "=" and bytes after it
\* (keep_blank_values and strict_parsing are off)
Kept(piece) ==
    LET i == IndexOf(piece, "=", 1) IN i # 0 /\ i < Len(piece)

\* parse_qsl: the pairs of the kept pieces, in order
parse_qsl(qs) ==
    LET pieces == SelectSeq(Split(qs, "&"), Kept)
    IN  [i \in 1..Len(pieces) |-> Pair(pieces[i])]

\* parse_qs(qs).get(name): the values of name in order, <<>> for None
Get(pairs, name) ==
    LET hits == SelectSeq(pairs, LAMBDA p : p.name = name)
    IN  [i \in 1..Len(hits) |-> hits[i].value]

\* a or b over lists, where None and [] are falsy
Or(a, b) == IF a # <<>> THEN a ELSE b

USERNAME == <<"user", "name">>

NAME == <<"name">>

MESSAGE == <<"message">>

\* the list [""]
Blank == << <<>> >>

parse_form_bytesMutant(payload) ==
    LET decoded == Decode(payload)
        data == parse_qsl(decoded)
    IN  [username |-> Or(Or(Get(data, USERNAME), Get(data, NAME)), Blank)[1],
         message |-> Or(Get(data, MESSAGE), <<decoded>>)[1]]

parse_form_bytes(payload) ==
    LET decoded == Decode(payload)
        data == parse_qsl(decoded)
    IN  [username |-> Or(Or(Get(data, USERNAME), Get(data, NAME)), Blank)[1],
         message |-> Or(Get(data, MESSAGE), Blank)[1]]

(***************************************************************************)
(* The request handler.  A request is its method, its target (the path,    *)
(* and after a "?" the query), its Content-Length header and the bytes the *)
(* client sends as body.                                                   *)
(***************************************************************************)
Request(method, target, cl, body) ==
    [method |-> method, target |-> target, cl |-> cl, body |-> body]

\* the Content-Length header: absent, not a number, or a number
NoLength == [kind |-> "absent", val |-> 0]

TextLength == [kind |-> "text", val |-> 0]

Length(n) == [kind |-> "int", val |-> n]

\* urlparse(self.path).path
UrlPath(target) ==
    LET i == IndexOf(target, "?", 1) IN
    IF i = 0 THEN target ELSE SubSeq(target, 1, i - 1)

\* a response; status 0 stands for none: the handler raised, the connection
\* is closed without a status line
Response(status, ctype, location, body) ==
    [status |-> status, ctype |-> ctype, location |-> location, body |-> body,
     raised |-> ""]

NoResponse(exception) ==
    [status |-> 0, ctype |-> "", location |-> <<>>, body |-> <<>>, raised |-> exception]

\* the bytes of a file, named by the file
Bytes(loc) == <<loc>>

\* mimetypes.guess_type, and the default of _serve_file
ContentType(loc) ==
    IF Last(loc) \in {<<"index.html">>, <<"message.html">>, <<"error.html">>}
    THEN "text/html"
    ELSE IF Last(loc) = <<"style.css">> THEN "text/css"
    ELSE IF Last(loc) = <<"logo.png">> THEN "image/png"
    ELSE IF Last(loc) = <<"a.txt">> THEN "text/plain"
    ELSE "application/octet-stream"

_serve_fileMutant(path, status) ==
    IF Readable(path)
    THEN Response(status, ContentType(path), <<>>, Bytes(path))
    ELSE IF Readable(ERROR_PAGE)
    THEN Response(404, ContentType(ERROR_PAGE), <<>>, Bytes(ERROR_PAGE))
    ELSE Response(500, "", <<>>, <<>>)

_serve_file(path, status) ==
    IF Readable(path)
    THEN Response(status, ContentType(path), <<>>, Bytes(path))
    ELSE Response(500, "", <<>>, <<>>)

_serve_404 == _serve_file(ERROR_PAGE, 404)

_serve_path(route_path) == _serve_file(file_path_for_route(route_path).loc, 200)

do_GET_response(req) ==
    LET path == UrlPath(req.target) IN
    IF path \in {<<"/">>, P("index.html"), P("message"), P("message.html"),
                 P("style.css"), P("logo.png")}
    THEN _serve_path(path)
    ELSE LET candidate == file_path_for_route(path) IN
         IF candidate.raised THEN NoResponse("ValueError")
         ELSE IF Last(candidate.loc) = <<"error.html">> THEN _serve_404
         ELSE _serve_file(candidate.loc, 200)

\* int(self.headers.get("Content-Length", "0")), 0 on ValueError
ContentLengthMutant(cl) ==
    IF cl.kind = "int" THEN cl.val ELSE IF cl.kind = "absent" THEN 1 ELSE 0

ContentLength(cl) == IF cl.kind = "int" THEN cl.val ELSE 0

\* self.rfile.read(length) allocates length bytes before it reads: a length
\* beyond what the process can allocate raises MemoryError (OverflowError
\* past the size of a C index), which do_POST does not catch
ReadRaises(length) == length > MaxAlloc

\* self.rfile.read(length) if length > 0 else b"": the bytes the client
\* sent, at most length of them
ReadBody(length, body) == IF length > 0 THEN Take(body, length) ELSE <<>>

NoRelay == [called |-> FALSE, id |-> 0, payload |-> <<>>, outcome |-> ""]

Exchange(req, resp, relay) ==
    [method |-> req.method, target |-> req.target, cl |-> req.cl, body |-> req.body,
     resp |-> resp, relay |-> relay]

\* whether the Receiver's socket is bound
RxBound == rxPc \in {"recv", "insert"}

\* a request that sends nothing: only the response is state
Answer(req, resp) ==
    /\ last' = Exchange(req, resp, NoRelay)
    /\ UNCHANGED <<nPosts, chan, lost, sent>>

do_GET(req) ==
    /\ req.method = "GET"
    /\ Answer(req, do_GET_response(req))

send_udpMutant(req, payload, outcome) ==
    /\ rxPc # "insert"
    /\ nPosts' = nPosts + 1
    /\ last' = Exchange(req, Response(302, "", <<"/">>, <<>>),
                        [called |-> TRUE, id |-> nPosts + 1, payload |-> payload,
                         outcome |-> outcome])
    /\ sent' = IF outcome = "sent" THEN sent \cup {nPosts + 1} ELSE sent
    /\ chan' = IF outcome = "sent"
               THEN chan \cup {[id |-> nPosts + 1, payload |-> payload]} ELSE chan
    /\ lost' = IF outcome = "sent" THEN lost ELSE lost \cup {nPosts + 1}

\* send_udp(payload): sendto either returns or raises OSError, which is
\* logged and swallowed.  A datagram sent while no socket is bound to the
\* port is discarded by the transport.
send_udp(req, payload, outcome) ==
    /\ nPosts' = nPosts + 1
    /\ last' = Exchange(req, Response(302, "", <<"/">>, <<>>),
                        [called |-> TRUE, id |-> nPosts + 1, payload |-> payload,
                         outcome |-> outcome])
    /\ sent' = IF outcome = "sent" THEN sent \cup {nPosts + 1} ELSE sent
    /\ IF outcome = "sent" /\ RxBound
       THEN /\ chan' = chan \cup {[id |-> nPosts + 1, payload |-> payload]}
            /\ lost' = lost
       ELSE /\ chan' = chan
            /\ lost' = lost \cup {nPosts + 1}

do_POST(req) ==
    /\ req.method = "POST"
    /\ IF UrlPath(req.target) # P("message")
       THEN Answer(req, _serve_404)
       ELSE LET length == ContentLength(req.cl) IN
            IF ReadRaises(length)
            THEN Answer(req, NoResponse("MemoryError"))
            ELSE /\ nPosts < MaxPosts
                 /\ \E outcome \in {"sent", "OSError"} :
                       send_udp(req, ReadBody(length, req.body), outcome)

\* BaseHTTPRequestHandler answers a method the class has no do_ method for
\* with send_error(501)
do_other(req) ==
    /\ req.method \notin {"GET", "POST"}
    /\ Answer(req, Response(501, "text/html;charset=utf-8", <<>>,
                            Bytes(<< <<"Unsupported method">> >>)))

(***************************************************************************)
(* RouterSpec: file_path_for_route applied to every request path up to     *)
(* MaxPathLen tokens, and to the longer ones of MorePaths, over each file  *)
(* system of FSConfigs.                                                    *)
(***************************************************************************)
PathTokens == {"/", "..", "sub", "up", "a.txt", "error.html", "secret", "link_out", "nul"}

RouteTablePaths ==
    {<<"/">>, P("index.html"), P("message"), P("message.html"), P("error.html"),
     P("style.css"), P("logo.png")}

MorePaths ==
    RouteTablePaths \cup
    { P("..%2fsecret"), P("nope"),
      <<"/", "..", "/", "front-init", "/", "sub", "/", "a.txt">>,
      <<"/", "sub", "/", "..", "/", "..", "/", "secret">>,
      <<"/", "up", "/", "front-init", "/", "index.html">> }

RouterPaths == SeqsUpTo(PathTokens, MaxPathLen) \cup MorePaths

NoCall == [fn |-> "none", v |-> <<>>]

NoDoc == [dg |-> 0, src |-> <<>>, date |-> 0, username |-> <<>>, message |-> <<>>]

NoExchange == [method |-> "none"]

\* the variables of the units a specification leaves alone
HandlerIdle == last = NoExchange /\ nPosts = 0 /\ chan = {} /\ lost = {} /\ sent = {}

\* main has started both units and waits for them; the Handler serves
Running == mainPc = "join_http" /\ httpPc = "serving" /\ sig = "none"

ReceiverIdle ==
    /\ rxPc = "start" /\ rxDoc = NoDoc /\ rxLog = "" /\ now = 0
    /\ store = <<>> /\ failed = {} /\ storeUp = TRUE /\ stopped = FALSE

RouterInit ==
    /\ fs \in FSConfigs
    /\ arg = NoCall /\ ret = Raised
    /\ HandlerIdle /\ ReceiverIdle /\ Running

RouteCall ==
    /\ arg = NoCall
    /\ \E p \in RouterPaths :
          /\ arg' = [fn |-> "file_path_for_route", v |-> p]
          /\ ret' = file_path_for_route(p)
    /\ UNCHANGED <<fs, last, nPosts, chan, lost, rxPc, rxDoc, rxLog, now,
                   store, failed, storeUp, stopped,
                   sent, mainPc, httpPc, sig>>

RouterNext == RouteCall

RouterSpec == RouterInit /\ [][RouterNext]_vars

(***************************************************************************)
(* C3: whatever location file_path_for_route returns, for any request path *)
(* (with "..", with links that lead outside, with escapes it does not      *)
(* decode), is the error page or lies below the static root.               *)
(***************************************************************************)
C3_Contained ==
    (arg.fn = "file_path_for_route" /\ ~ret.raised)
        => (ret.loc = ERROR_PAGE \/ IsProperPrefix(STATIC_DIR, ret.loc))

\* a path that names an existing file outside the static root got the error page
C3_Witness ==
    /\ arg.fn = "file_path_for_route"
    /\ ~HasNul(Names(LStrip(arg.v)))
    /\ Realpath(STATIC_DIR, Names(LStrip(arg.v))) = Secret
    /\ IsFile(Secret)
    /\ ret = Returned(ERROR_PAGE)

(***************************************************************************)
(* ParseSpec: parse_form_bytes applied to every payload of up to MaxFields *)
(* fields, each field one of Fields, joined by "&".                        *)
(***************************************************************************)
\* a field as the client wrote it: a name, and after a "=" a value (raw bytes)
Field(name, value) == [name |-> name, eq |-> TRUE, value |-> value]

Bare(bytes) == [name |-> bytes, eq |-> FALSE, value |-> <<>>]

FieldValues ==
    {<<>>, <<"xFF">>, <<"alice">>, <<"bob">>, <<"hi", "+", "%26">>, <<"alice", "=", "bob">>}

Fields ==
    {Field(n, v) : n \in {USERNAME, NAME, MESSAGE}, v \in FieldValues}
    \cup {Field(<<"user", "xFF", "name">>, <<"alice">>)}
    \cup {Bare(<<>>), Bare(<<"alice">>), Bare(<<"xFF", "message">>)}

FieldBytes(f) == IF f.eq THEN f.name \o <<"=">> \o f.value ELSE f.name

RECURSIVE Join(_)
Join(fields) ==
    IF fields = <<>> THEN <<>>
    ELSE IF Len(fields) = 1 THEN FieldBytes(fields[1])
    ELSE FieldBytes(fields[1]) \o <<"&">> \o Join(Tail(fields))

ParseInit ==
    /\ fs = [missing |-> {}, unreadable |-> {}]
    /\ arg = NoCall /\ ret = [username |-> <<>>, message |-> <<>>]
    /\ HandlerIdle /\ ReceiverIdle /\ Running

ParseCall ==
    /\ arg = NoCall
    /\ \E fields \in SeqsUpTo(Fields, MaxFields) :
          /\ arg' = [fn |-> "parse_form_bytes", v |-> fields]
          /\ ret' = parse_form_bytes(Join(fields))
    /\ UNCHANGED <<fs, last, nPosts, chan, lost, rxPc, rxDoc, rxLog, now,
                   store, failed, storeUp, stopped,
                   sent, mainPc, httpPc, sig>>

ParseNext == ParseCall

ParseSpec == ParseInit /\ [][ParseNext]_vars

\* the values the payload gives field name, as written, in order
Written(fields, name) ==
    LET hits == SelectSeq(fields, LAMBDA f : f.eq /\ Decode(f.name) = name)
    IN  [i \in 1..Len(hits) |-> Unquote(Decode(hits[i].value))]

\* those of them that are not blank
NonBlank(values) == SelectSeq(values, LAMBDA v : v # <<>>)

FirstOr(values, default) == IF values # <<>> THEN values[1] ELSE default

(***************************************************************************)
(* C10 as stated: username is the first value the payload gives field      *)
(* username whenever the payload has that field, else the first value of   *)
(* name, else empty; message is the first value of message, else empty.    *)
(***************************************************************************)
C10_AsStated ==
    arg.fn = "parse_form_bytes" =>
        /\ ret.username =
              FirstOr(Written(arg.v, USERNAME), FirstOr(Written(arg.v, NAME), <<>>))
        /\ ret.message = FirstOr(Written(arg.v, MESSAGE), <<>>)

(***************************************************************************)
(* C10 amended: a blank value counts as no value.  username is the first   *)
(* non-blank value of username when there is one, else the first non-blank *)
(* value of name, else empty; message is the first non-blank value of      *)
(* message, else empty.  Both keys are present in the result.              *)
(***************************************************************************)
C10_FirstNonBlank ==
    arg.fn = "parse_form_bytes" =>
        /\ DOMAIN ret = {"username", "message"}
        /\ ret.username =
              FirstOr(NonBlank(Written(arg.v, USERNAME)),
                      FirstOr(NonBlank(Written(arg.v, NAME)), <<>>))
        /\ ret.message = FirstOr(NonBlank(Written(arg.v, MESSAGE)), <<>>)

\* a payload with a blank username before a name: the name was taken
C10_Witness ==
    /\ arg.fn = "parse_form_bytes"
    /\ Written(arg.v, USERNAME) = << <<>> >>
    /\ Written(arg.v, NAME) = << <<"bob">> >>
    /\ ret.username = <<"bob">>

(***************************************************************************)
(* The requests of the model.  Requests are those of Spec; AnyRequests,    *)
(* with every method and the targets of Targets, are those of HandlerSpec. *)
(***************************************************************************)
\* a form body with the two fields, as a browser sends it
FormBody(u, m) == USERNAME \o <<"=", u, "&">> \o MESSAGE \o <<"=", m>>

\* bytes that are no form data
Garbage == <<"xFF", "alice">>

Bodies == {FormBody("alice", "hi"), Garbage}

\* the Content-Length headers a client may send with a body
Lengths(body) == {NoLength, TextLength, Length(Len(body)), Length(MaxAlloc + 1)}

Requests ==
    UNION {{Request("POST", P("message"), cl, b) : cl \in Lengths(b)} : b \in Bodies}
    \cup {Request("GET", <<"/">>, NoLength, <<>>),
          Request("POST", P("nope"), Length(2), Garbage)}

Targets ==
    RouteTablePaths \cup
    { P("nope"), P("..%2fsecret"), P("link_out"), P("nul"),
      <<"/", "..", "/", "secret">>,
      <<"/", "sub", "/", "a.txt">>,
      <<"/", "sub", "/", "error.html">>,
      <<"/", "message", "?", "x">>,
      <<"/", "nope", "?", "x">> }

PostTargets == {P("message"), <<"/", "message", "?", "x">>, P("nope"), <<"/">>}

AnyRequests ==
    {Request("GET", t, NoLength, <<>>) : t \in Targets}
    \cup UNION {{Request("POST", t, cl, b) :
                    t \in PostTargets, cl \in Lengths(b) \cup {Length(1), Length(-1)}} :
                b \in Bodies \cup {<<>>}}
    \cup {Request(m, t, NoLength, <<>>) : m \in {"PUT", "DELETE"}, t \in PostTargets}

\* the payloads those requests can put on the wire
Payloads ==
    {ReadBody(ContentLength(r.cl), r.body) : r \in Requests \cup AnyRequests}

\* data = parse_form_bytes(payload), for each of them
Parsed == [payload \in Payloads |-> parse_form_bytes(payload)]

(***************************************************************************)
(* The Receiver/Persister: run_socket_server.                              *)
(***************************************************************************)
RxPingMutant ==
    /\ ~stopped /\ rxPc = "start"
    /\ rxPc' = IF storeUp THEN "bind" ELSE "crashed"
    /\ rxLog' = IF storeUp THEN rxLog ELSE "cannot connect to mongodb"
    /\ UNCHANGED <<fs, arg, ret, last, nPosts, chan, lost, rxDoc, now, store,
                   failed, storeUp, stopped, sent, mainPc, httpPc, sig>>

\* client.admin.command("ping"): a failure is logged, nothing else
RxPing ==
    /\ ~stopped /\ rxPc = "start"
    /\ rxPc' = "bind"
    /\ rxLog' = IF storeUp THEN rxLog ELSE "cannot connect to mongodb"
    /\ UNCHANGED <<fs, arg, ret, last, nPosts, chan, lost, rxDoc, now, store,
                   failed, storeUp, stopped,
                   sent, mainPc, httpPc, sig>>

\* s.bind(("0.0.0.0", SOCKET_PORT)) returns
RxBind ==
    /\ ~stopped /\ rxPc = "bind"
    /\ rxPc' = "recv"
    /\ UNCHANGED <<fs, arg, ret, last, nPosts, chan, lost, rxDoc, rxLog, now, store,
                   failed, storeUp, stopped,
                   sent, mainPc, httpPc, sig>>

\* s.bind raises OSError (the port is taken): outside the loop's try, the
\* exception ends run_socket_server
RxBindFail ==
    /\ ~stopped /\ rxPc = "bind"
    /\ rxPc' = "crashed"
    /\ UNCHANGED <<fs, arg, ret, last, nPosts, chan, lost, rxDoc, rxLog, now, store,
                   failed, storeUp, stopped,
                   sent, mainPc, httpPc, sig>>

\* the document built from one datagram; dg and src are not fields of the
\* code's document: they name the datagram it was built from and its bytes
Document(d, clock) ==
    LET data == Parsed[d.payload] IN
    [dg |-> d.id, src |-> d.payload, date |-> clock,
     username |-> data.username, message |-> data.message]

RxRecvMutant ==
    /\ ~stopped /\ rxPc = "recv"
    /\ \E d \in chan :
          /\ chan' = chan
          /\ now' = now + 1
          /\ rxDoc' = Document(d, now + 1)
    /\ rxPc' = "insert"
    /\ UNCHANGED <<fs, arg, ret, last, nPosts, lost, rxLog, store, failed, storeUp,
                   stopped, sent, mainPc, httpPc, sig>>

\* s.recvfrom returns a datagram; it is parsed, the document is built and
\* collection.insert_one is entered
RxRecv ==
    /\ ~stopped /\ rxPc = "recv"
    /\ \E d \in chan :
          /\ chan' = chan \ {d}
          /\ now' = now + 1
          /\ rxDoc' = Document(d, now + 1)
    /\ rxPc' = "insert"
    /\ UNCHANGED <<fs, arg, ret, last, nPosts, lost, rxLog, store, failed, storeUp,
                   stopped,
                   sent, mainPc, httpPc, sig>>

RxRecvErrorMutant ==
    /\ ~stopped /\ rxPc = "recv"
    /\ rxLog' = "socket error"
    /\ rxPc' = "crashed"
    /\ UNCHANGED <<fs, arg, ret, last, nPosts, chan, lost, rxDoc, now, store, failed,
                   storeUp, stopped,
                   sent, mainPc, httpPc, sig>>

\* s.recvfrom raises OSError: logged, and the loop goes on
RxRecvError ==
    /\ ~stopped /\ rxPc = "recv"
    /\ rxLog' = "socket error"
    /\ rxPc' = "recv"
    /\ UNCHANGED <<fs, arg, ret, last, nPosts, chan, lost, rxDoc, now, store, failed,
                   storeUp, stopped,
                   sent, mainPc, httpPc, sig>>

RxInsertOkMutant ==
    /\ ~stopped /\ rxPc = "insert" /\ storeUp
    /\ store' = IF \E i \in 1..Len(store) :
                      /\ store[i].username = rxDoc.username
                      /\ store[i].message = rxDoc.message
                THEN store ELSE Append(store, rxDoc)
    /\ rxLog' = "saved message"
    /\ rxPc' = "recv"
    /\ rxDoc' = NoDoc
    /\ UNCHANGED <<fs, arg, ret, last, nPosts, chan, lost, now, failed, storeUp,
                   stopped,
                   sent, mainPc, httpPc, sig>>

\* collection.insert_one returns: the document is in the collection
RxInsertOk ==
    /\ ~stopped /\ rxPc = "insert" /\ storeUp
    /\ store' = Append(store, rxDoc)
    /\ rxLog' = "saved message"
    /\ rxPc' = "recv"
    /\ rxDoc' = NoDoc
    /\ UNCHANGED <<fs, arg, ret, last, nPosts, chan, lost, now, failed, storeUp,
                   stopped,
                   sent, mainPc, httpPc, sig>>

RxInsertFailMutant ==
    /\ ~stopped /\ rxPc = "insert" /\ ~storeUp
    /\ failed' = failed \cup {rxDoc.dg}
    /\ chan' = chan \cup {[id |-> rxDoc.dg, payload |-> rxDoc.src]}
    /\ rxLog' = "mongodb error"
    /\ rxPc' = "recv"
    /\ rxDoc' = NoDoc
    /\ UNCHANGED <<fs, arg, ret, last, nPosts, lost, now, store, storeUp, stopped,
                   sent, mainPc, httpPc, sig>>

\* collection.insert_one raises PyMongoError: logged, the document is
\* dropped and the loop goes on
RxInsertFail ==
    /\ ~stopped /\ rxPc = "insert" /\ ~storeUp
    /\ failed' = failed \cup {rxDoc.dg}
    /\ rxLog' = "mongodb error"
    /\ rxPc' = "recv"
    /\ rxDoc' = NoDoc
    /\ UNCHANGED <<fs, arg, ret, last, nPosts, chan, lost, now, store, storeUp,
                   stopped,
                   sent, mainPc, httpPc, sig>>

(***************************************************************************)
(* The environment: the store, the transport, the operator.                *)
(***************************************************************************)
\* the store becomes unreachable, or reachable again
StoreFlip ==
    /\ ~stopped
    /\ storeUp' = ~storeUp
    /\ UNCHANGED <<fs, arg, ret, last, nPosts, chan, lost, rxPc, rxDoc, rxLog, now,
                   store, failed, stopped,
                   sent, mainPc, httpPc, sig>>

\* the transport drops a queued datagram
ChanDrop ==
    /\ ~stopped
    /\ \E d \in chan :
          /\ chan' = chan \ {d}
          /\ lost' = lost \cup {d.id}
    /\ UNCHANGED <<fs, arg, ret, last, nPosts, rxPc, rxDoc, rxLog, now, store,
                   failed, storeUp, stopped,
                   sent, mainPc, httpPc, sig>>

\* whether the processes run
MainAlive == mainPc \notin {"ended", "killed"}

HttpAlive == httpPc \in {"init", "serving"}

RxAlive == rxPc \in {"start", "bind", "recv", "insert"}

\* SIGTERM kills a process that installed no handler for it, wherever it
\* stands: no except and no finally clause runs, the kernel closes its sockets
Killed(pc, alive, dead) == IF alive THEN dead ELSE pc

\* SIGTERM (or SIGKILL) to every process of the program at once
ExternalStop ==
    /\ ~stopped /\ sig = "none"
    /\ stopped' = TRUE
    /\ sig' = "SIGTERM"
    /\ mainPc' = Killed(mainPc, MainAlive, "killed")
    /\ httpPc' = Killed(httpPc, HttpAlive, "killed")
    /\ rxPc' = Killed(rxPc, RxAlive, "terminated")
    /\ UNCHANGED <<fs, arg, ret, last, nPosts, chan, lost, rxDoc, rxLog, now, store,
                   failed, storeUp, sent>>

(***************************************************************************)
(* Spec: the Handler and the Receiver side by side, over one complete file *)
(* system and the requests of Requests.                                    *)
(***************************************************************************)
\* what a request leaves alone: the file system and the Receiver
HandlerFrame ==
    UNCHANGED <<fs, arg, ret, rxPc, rxDoc, rxLog, now, store, failed, storeUp, stopped,
                mainPc, httpPc, sig>>

\* serve_forever is accepting requests
Serving == httpPc = "serving"

HttpGet == Serving /\ (\E req \in Requests : do_GET(req)) /\ HandlerFrame

HttpPost == Serving /\ (\E req \in Requests : do_POST(req)) /\ HandlerFrame

Init ==
    /\ fs = [missing |-> {}, unreadable |-> {}]
    /\ arg = NoCall /\ ret = Raised
    /\ HandlerIdle /\ ReceiverIdle /\ Running

Next ==
    \/ HttpGet
    \/ HttpPost
    \/ RxPing
    \/ RxBind
    \/ RxBindFail
    \/ RxRecv
    \/ RxRecvError
    \/ RxInsertOk
    \/ RxInsertFail
    \/ StoreFlip
    \/ ChanDrop
    \/ ExternalStop

Spec == Init /\ [][Next]_vars

\* the Receiver's blocking calls return: a bound socket hands over a queued
\* datagram, and a reachable store answers an insert
FairSpec ==
    /\ Spec
    /\ WF_vars(RxPing) /\ WF_vars(RxBind) /\ WF_vars(RxRecv) /\ WF_vars(RxInsertOk)

(***************************************************************************)
(* The supervisor: main, the two processes it starts, and the signals that *)
(* stop the program.                                                       *)
(***************************************************************************)
\* http_proc.start()
MainStartHttp ==
    /\ mainPc = "start_http"
    /\ mainPc' = "start_sock"
    /\ httpPc' = "init"
    /\ UNCHANGED <<fs, arg, ret, last, nPosts, chan, lost, rxPc, rxDoc, rxLog, now,
                   store, failed, storeUp, stopped, sent, sig>>

\* sock_proc.start()
MainStartSock ==
    /\ mainPc = "start_sock"
    /\ mainPc' = "join_http"
    /\ rxPc' = "start"
    /\ UNCHANGED <<fs, arg, ret, last, nPosts, chan, lost, rxDoc, rxLog, now,
                   store, failed, storeUp, stopped, sent, httpPc, sig>>

\* http_proc.join() returns once run_http_server has ended
MainJoinHttp ==
    /\ mainPc = "join_http" /\ ~HttpAlive
    /\ mainPc' = "join_sock"
    /\ UNCHANGED <<fs, arg, ret, last, nPosts, chan, lost, rxPc, rxDoc, rxLog, now,
                   store, failed, storeUp, stopped, sent, httpPc, sig>>

\* sock_proc.join() returns once run_socket_server has ended; main returns
MainJoinSock ==
    /\ mainPc = "join_sock" /\ ~RxAlive
    /\ mainPc' = "ended"
    /\ UNCHANGED <<fs, arg, ret, last, nPosts, chan, lost, rxPc, rxDoc, rxLog, now,
                   store, failed, storeUp, stopped, sent, httpPc, sig>>

\* except KeyboardInterrupt: http_proc.terminate() and sock_proc.terminate()
\* send SIGTERM to the two processes
MainTerminate ==
    /\ mainPc = "terminate"
    /\ mainPc' = "rejoin"
    /\ httpPc' = Killed(httpPc, HttpAlive, "killed")
    /\ rxPc' = Killed(rxPc, RxAlive, "terminated")
    /\ UNCHANGED <<fs, arg, ret, last, nPosts, chan, lost, rxDoc, rxLog, now,
                   store, failed, storeUp, stopped, sent, sig>>

\* the two join calls of the except clause return; main returns
MainRejoin ==
    /\ mainPc = "rejoin" /\ ~HttpAlive /\ ~RxAlive
    /\ mainPc' = "ended"
    /\ UNCHANGED <<fs, arg, ret, last, nPosts, chan, lost, rxPc, rxDoc, rxLog, now,
                   store, failed, storeUp, stopped, sent, httpPc, sig>>

\* a KeyboardInterrupt outside the try of main is not caught: the
\* interpreter shuts down, and multiprocessing joins the processes that
\* were started before it lets the interpreter exit
MainExit ==
    /\ mainPc = "exit" /\ ~HttpAlive /\ ~RxAlive
    /\ mainPc' = "ended"
    /\ UNCHANGED <<fs, arg, ret, last, nPosts, chan, lost, rxPc, rxDoc, rxLog, now,
                   store, failed, storeUp, stopped, sent, httpPc, sig>>

\* HTTPServer((HTTP_HOST, HTTP_PORT), AppHandler) binds and listens
HttpBind ==
    /\ httpPc = "init"
    /\ httpPc' = "serving"
    /\ UNCHANGED <<fs, arg, ret, last, nPosts, chan, lost, rxPc, rxDoc, rxLog, now,
                   store, failed, storeUp, stopped, sent, mainPc, sig>>

\* the constructor raises OSError (the port is taken): outside the try, the
\* exception ends run_http_server
HttpBindFail ==
    /\ httpPc = "init"
    /\ httpPc' = "crashed"
    /\ UNCHANGED <<fs, arg, ret, last, nPosts, chan, lost, rxPc, rxDoc, rxLog, now,
                   store, failed, storeUp, stopped, sent, mainPc, sig>>

\* KeyboardInterrupt in main: caught inside the try (lines 216-218), not
\* caught before it
Interrupted(pc) ==
    IF pc \in {"join_http", "join_sock"} THEN "terminate"
    ELSE IF pc \in {"start_http", "start_sock"} THEN "exit"
    ELSE pc

\* KeyboardInterrupt in run_http_server: inside serve_forever it is caught
\* and server_close runs; before the try it ends the process
HttpInterrupted(pc) ==
    IF pc = "serving" THEN "closed" ELSE IF pc = "init" THEN "crashed" ELSE pc

\* SIGINT to the main process alone (kill -INT)
SigIntMain ==
    /\ sig = "none" /\ MainAlive
    /\ sig' = "SIGINT"
    /\ mainPc' = Interrupted(mainPc)
    /\ UNCHANGED <<fs, arg, ret, last, nPosts, chan, lost, rxPc, rxDoc, rxLog, now,
                   store, failed, storeUp, stopped, sent, httpPc>>

\* SIGINT to the foreground process group (Ctrl-C): main and both units get
\* a KeyboardInterrupt; run_socket_server does not catch it, and leaving the
\* with block closes its socket
SigIntGroup ==
    /\ sig = "none" /\ MainAlive
    /\ sig' = "SIGINT"
    /\ mainPc' = Interrupted(mainPc)
    /\ httpPc' = HttpInterrupted(httpPc)
    /\ rxPc' = Killed(rxPc, RxAlive, "terminated")
    /\ UNCHANGED <<fs, arg, ret, last, nPosts, chan, lost, rxDoc, rxLog, now,
                   store, failed, storeUp, stopped, sent>>

\* SIGTERM to the main process alone (kill, a service manager's stop): main
\* installs no handler, so it is killed where it stands and its except
\* clause never runs
SigTermMain ==
    /\ sig = "none" /\ MainAlive
    /\ sig' = "SIGTERM"
    /\ mainPc' = "killed"
    /\ UNCHANGED <<fs, arg, ret, last, nPosts, chan, lost, rxPc, rxDoc, rxLog, now,
                   store, failed, storeUp, stopped, sent, httpPc>>

(***************************************************************************)
(* StopSpec: the program from the start of main, with the requests of      *)
(* Requests as the Handler's work, and one stop signal.                    *)
(***************************************************************************)
StopInit ==
    /\ fs = [missing |-> {}, unreadable |-> {}]
    /\ arg = NoCall /\ ret = Raised
    /\ HandlerIdle
    /\ rxPc = "none" /\ rxDoc = NoDoc /\ rxLog = "" /\ now = 0
    /\ store = <<>> /\ failed = {} /\ storeUp = TRUE /\ stopped = FALSE
    /\ mainPc = "start_http" /\ httpPc = "none" /\ sig = "none"

StopNext ==
    \/ MainStartHttp
    \/ MainStartSock
    \/ MainJoinHttp
    \/ MainJoinSock
    \/ MainTerminate
    \/ MainRejoin
    \/ MainExit
    \/ HttpBind
    \/ HttpBindFail
    \/ HttpGet
    \/ HttpPost
    \/ RxPing
    \/ RxBind
    \/ RxBindFail
    \/ RxRecvError
    \/ SigIntMain
    \/ SigIntGroup
    \/ SigTermMain
    \/ ExternalStop

StopSpec == StopInit /\ [][StopNext]_vars

\* a process that can take a step takes it: main's calls return, and a
\* join returns once the process it waits for has ended
FairStopSpec ==
    /\ StopSpec
    /\ WF_vars(MainStartHttp) /\ WF_vars(MainStartSock)
    /\ WF_vars(MainJoinHttp) /\ WF_vars(MainJoinSock)
    /\ WF_vars(MainTerminate) /\ WF_vars(MainRejoin) /\ WF_vars(MainExit)

\* the bound sockets of the two units
HttpBound == httpPc = "serving"

(***************************************************************************)
(* C13 as stated: once a stop signal was delivered to the program, both    *)
(* units end (they accept no new work and their sockets are released);     *)
(* and whenever main has ended, both units have ended.                     *)
(***************************************************************************)
C13_AsStated ==
    /\ (sig # "none") ~> (~HttpAlive /\ ~RxAlive /\ ~HttpBound /\ ~RxBound)
    /\ [](~MainAlive => (~HttpAlive /\ ~RxAlive))

(***************************************************************************)
(* HandlerSpec: the Handler alone (the Receiver is not started), over each *)
(* file system of FSConfigs and the requests of AnyRequests.               *)
(***************************************************************************)
AnyGet == \E req \in AnyRequests : do_GET(req) /\ HandlerFrame

AnyPost == \E req \in AnyRequests : do_POST(req) /\ HandlerFrame

AnyOther == \E req \in AnyRequests : do_other(req) /\ HandlerFrame

HandlerInit ==
    /\ fs \in FSConfigs
    /\ arg = NoCall /\ ret = Raised
    /\ HandlerIdle /\ ReceiverIdle /\ Running

HandlerNext == AnyGet \/ AnyPost \/ AnyOther

HandlerSpec == HandlerInit /\ [][HandlerNext]_vars

\* the request handled last
Handled(method) == last.method = method

LastPath == UrlPath(last.target)

\* an installation with every file in place and readable
Complete == fs.missing = {} /\ fs.unreadable = {}

\* the file a request path names, read as a path relative to the static root
Named(path) == Realpath(STATIC_DIR, Names(LStrip(path)))

\* whether a request path names an existing regular file under the static root
NamesAsset(path) ==
    /\ ~HasNul(Names(LStrip(path)))
    /\ IsProperPrefix(STATIC_DIR, Named(path))
    /\ IsFile(Named(path))

\* the 404 handling: status 404 with the error page as body
Is404(resp) == resp.status = 404 /\ resp.body = Bytes(ERROR_PAGE)

(***************************************************************************)
(* C2 as stated: every POST whose path is /message is answered 302 with    *)
(* Location "/", whatever its Content-Length and the outcome of the send.  *)
(***************************************************************************)
C2_AsStated ==
    (Handled("POST") /\ LastPath = P("message"))
        => (last.resp.status = 302 /\ last.resp.location = <<"/">>)

(***************************************************************************)
(* C4 as stated, in a complete and readable installation: a GET of a path  *)
(* that is neither in the route table nor an existing regular file under   *)
(* the static root is answered 404 with the error page's bytes; a GET of a *)
(* page or asset of the route table (other than the error page) is         *)
(* answered 200 with that file's bytes.                                    *)
(***************************************************************************)
C4_AsStated ==
    (Handled("GET") /\ Complete) =>
        /\ (LastPath \notin RouteTablePaths /\ ~NamesAsset(LastPath))
              => Is404(last.resp)
        /\ (LastPath \in RouteTablePaths \ {P("error.html")})
              => /\ last.resp.status = 200
                 /\ last.resp.body = Bytes(file_path_for_route(LastPath).loc)

\* the (method, path) pairs the interface documents
Documented ==
    \/ Handled("GET") /\ (LastPath \in RouteTablePaths \/ NamesAsset(LastPath))
    \/ Handled("POST") /\ LastPath = P("message")

(***************************************************************************)
(* C5 as stated, in a complete and readable installation: every request    *)
(* whose (method, path) is not a documented route, whatever its method, is *)
(* answered 404 with the error page.                                       *)
(***************************************************************************)
C5_AsStated ==
    (~Handled("none") /\ Complete /\ ~Documented) => Is404(last.resp)

(***************************************************************************)
(* The claims about the pipeline.                                          *)
(***************************************************************************)
Ids == 1..MaxPosts

\* the documents the Receiver has built: the one it is inserting, and those
\* in the collection
Inserting == rxPc = "insert"

Docs == {store[i] : i \in 1..Len(store)} \cup (IF Inserting THEN {rxDoc} ELSE {})

\* how many documents of the collection were built from datagram id
Stored(id) == Cardinality({i \in 1..Len(store) : store[i].dg = id})

\* the last request was a POST to /message that handed the Relay datagram id
\* with these bytes (the Content-Length bytes of its body)
Posted(id, payload) ==
    /\ Handled("POST") /\ LastPath = P("message")
    /\ last.relay.called /\ last.relay.id = id
    /\ ReadBody(ContentLength(last.cl), last.body) = payload

\* the collection holds exactly one document built from datagram id, with
\* these fields
StoredOnce(id, u, m) ==
    /\ Stored(id) = 1
    /\ \E i \in 1..Len(store) :
          store[i].dg = id /\ store[i].username = <<u>> /\ store[i].message = <<m>>

\* the datagram channel delivers and the store accepts inserts, for ever
Delivering == [](storeUp /\ ~stopped /\ lost = {})

(***************************************************************************)
(* C1: if the channel delivers and the store accepts inserts, every POST   *)
(* to /message whose body is username=u&message=m leads to exactly one     *)
(* stored document of that datagram, with username u and message m; no     *)
(* datagram is ever stored twice, so n POSTs, identical or not, give n     *)
(* documents.                                                              *)
(***************************************************************************)
C1_EachPostStoredOnce ==
    /\ Delivering =>
          \A id \in Ids :
              Posted(id, FormBody("alice", "hi")) ~> StoredOnce(id, "alice", "hi")
    /\ [](\A id \in Ids : Stored(id) <= 1)

\* two POSTs with the same body, two documents
C1_Witness ==
    /\ Len(store) = 2
    /\ store[1].dg # store[2].dg
    /\ store[1].src = FormBody("alice", "hi") /\ store[2].src = FormBody("alice", "hi")
    /\ StoredOnce(1, "alice", "hi") /\ StoredOnce(2, "alice", "hi")

(***************************************************************************)
(* C6: a datagram whose insert failed is dropped: it is not in the         *)
(* collection, not queued again and not being inserted, ever.  The failure *)
(* leaves the Receiver waiting for the next datagram, and a datagram       *)
(* received after a failure is stored once the store accepts inserts       *)
(* (unless the store fails again or the process is stopped).               *)
(***************************************************************************)
Dropped(id) ==
    /\ Stored(id) = 0
    /\ \A d \in chan : d.id # id
    /\ ~(Inserting /\ rxDoc.dg = id)

C6_DroppedAndRecovers ==
    /\ [](\A id \in failed : Dropped(id))
    /\ [][failed' # failed => rxPc' = "recv"]_vars
    /\ \A id \in Ids :
          (failed # {} /\ Inserting /\ rxDoc.dg = id /\ storeUp)
              ~> (Stored(id) = 1 \/ ~storeUp \/ stopped)

\* the first datagram received failed, the second is in the collection
C6_Witness ==
    /\ failed # {}
    /\ \E i \in 1..Len(store) : store[i].date = 2 /\ store[i].dg \notin failed

(***************************************************************************)
(* C7: once in the receive loop, the Receiver leaves it only when the      *)
(* process is terminated from outside: a receive error, any payload and a  *)
(* failed insert all lead back to waiting for a datagram.                  *)
(***************************************************************************)
InLoop == rxPc \in {"recv", "insert"}

C7_NoTerminalState == [][InLoop => (InLoop' \/ stopped')]_vars

\* the loop waits again after a receive error and a failed insert
C7_Witness == rxPc = "recv" /\ rxLog = "socket error" /\ failed # {} /\ now = 2

(***************************************************************************)
(* C8: a received datagram that is no form data (no "=" in it) enters one  *)
(* insert, of a document with username "" and message ""; the datagram is  *)
(* in at most one of: being inserted, inserted once, failed.               *)
(***************************************************************************)
NotForm(payload) == \A i \in 1..Len(payload) : payload[i] # "="

Attempts(id) ==
    Stored(id) + (IF id \in failed THEN 1 ELSE 0)
               + (IF Inserting /\ rxDoc.dg = id THEN 1 ELSE 0)

C8_MalformedGivesEmptyDocument ==
    /\ [](\A doc \in Docs :
             NotForm(doc.src) => (doc.username = <<>> /\ doc.message = <<>>))
    /\ [](\A id \in Ids : Attempts(id) <= 1)
    /\ [][\A d \in chan :
             (d \notin chan' /\ d.id \notin lost' /\ NotForm(d.payload))
                 => /\ rxPc' = "insert"
                    /\ rxDoc'.dg = d.id /\ rxDoc'.src = d.payload
                    /\ rxDoc'.username = <<>> /\ rxDoc'.message = <<>>]_vars

\* a document built from undecodable bytes is in the collection
C8_Witness ==
    \E i \in 1..Len(store) :
        store[i].src = Garbage /\ store[i].username = <<>> /\ store[i].message = <<>>

(***************************************************************************)
(* C9: a POST to /message whose Content-Length is missing or no number is  *)
(* answered without error after an empty payload went to the Relay, and    *)
(* every document built from an empty payload has both fields empty.       *)
(***************************************************************************)
C9_NoLengthGivesEmptyDocument ==
    /\ (Handled("POST") /\ LastPath = P("message") /\ last.cl.kind \in {"absent", "text"})
          => /\ last.relay.called /\ last.relay.payload = <<>>
             /\ last.resp.status = 302 /\ last.resp.raised = ""
             /\ \A d \in chan : d.id = last.relay.id => d.payload = <<>>
             /\ \A doc \in Docs : doc.dg = last.relay.id => doc.src = <<>>
    /\ \A doc \in Docs : doc.src = <<>> => (doc.username = <<>> /\ doc.message = <<>>)

\* the document of a POST that had a body but no Content-Length is stored
C9_Witness ==
    /\ Handled("POST") /\ last.cl.kind \in {"absent", "text"} /\ last.body # <<>>
    /\ \E i \in 1..Len(store) :
          /\ store[i].dg = last.relay.id
          /\ store[i].username = <<>> /\ store[i].message = <<>>

(***************************************************************************)
(* The claims about what the Handler serves.                               *)
(***************************************************************************)
\* whether a request path matches a file the Handler can serve: a path of
\* the route table or an existing regular file under the static root
Matches(path) == path \in RouteTablePaths \/ NamesAsset(path)

(***************************************************************************)
(* C11 as stated, in a complete and readable installation: a GET of a path *)
(* that names an existing regular file under the static root, /error.html  *)
(* and the files of subdirectories included and whatever the file is       *)
(* called, is answered 200 with the bytes of that file; a GET is answered  *)
(* 404 only if its path matches no file.                                   *)
(***************************************************************************)
C11_AsStated ==
    (Handled("GET") /\ Complete) =>
        /\ NamesAsset(LastPath)
              => (last.resp.status = 200 /\ last.resp.body = Bytes(Named(LastPath)))
        /\ last.resp.status = 404 => ~Matches(LastPath)

(***************************************************************************)
(* C12: the Handler does not wait for the Receiver.  In every state where  *)
(* the Handler serves, whatever the Receiver does (not started, bound,     *)
(* inside an insert that does not return, crashed) and whatever is queued  *)
(* or lost, each GET and each POST of Requests can be handled at once,     *)
(* with the response the Handler gives when it runs alone.                 *)
(***************************************************************************)
\* the response to a request, as a function of the request and the files
Alone(req) ==
    IF req.method = "GET" THEN do_GET_response(req)
    ELSE IF UrlPath(req.target) # P("message") THEN _serve_404
    ELSE IF ReadRaises(ContentLength(req.cl)) THEN NoResponse("MemoryError")
    ELSE Response(302, "", <<"/">>, <<>>)

Handle(req) == (do_GET(req) \/ do_POST(req)) /\ HandlerFrame

C12_HandlerNeverWaits ==
    (Serving /\ nPosts < MaxPosts) =>
        \A req \in Requests :
            ENABLED (Handle(req) /\ last'.resp = Alone(req))

\* a POST was answered 302 while the Receiver was inside an insert into a
\* store that is down, with a datagram lost before
C12_Witness ==
    /\ Inserting /\ ~storeUp /\ lost # {}
    /\ Handled("POST") /\ last.relay.called /\ last.relay.id > rxDoc.dg
    /\ last.resp.status = 302

(***************************************************************************)
(* C14: for each path of the route table file_path_for_route returns the   *)
(* file the table documents, under the static root, whether or not that    *)
(* file exists.                                                            *)
(***************************************************************************)
\* the route table as documented: the file name each path stands for
RouteFile(path) ==
    IF path \in {<<"/">>, P("index.html")} THEN "index.html"
    ELSE IF path \in {P("message"), P("message.html")} THEN "message.html"
    ELSE IF path = P("error.html") THEN "error.html"
    ELSE IF path = P("style.css") THEN "style.css"
    ELSE "logo.png"

C14_RouteTable ==
    (arg.fn = "file_path_for_route" /\ arg.v \in RouteTablePaths)
        => ret = Returned(Under(STATIC_DIR, RouteFile(arg.v)))

\* /style.css gave style.css although the file is missing
C14_Witness ==
    /\ arg = [fn |-> "file_path_for_route", v |-> P("style.css")]
    /\ ~IsFile(Under(STATIC_DIR, "style.css"))
    /\ ret = Returned(Under(STATIC_DIR, "style.css"))

(***************************************************************************)
(* The counts of the pipeline.  nPosts counts the POSTs to /message that   *)
(* reached send_udp (each was answered 302), sent the datagrams sendto put *)
(* on the wire, now the datagrams recvfrom returned (the clock ticks once  *)
(* per datagram), Len(store) the documents inserted.                       *)
(***************************************************************************)
PostsHandled == nPosts

DatagramsSent == Cardinality(sent)

DatagramsReceived == now

DocumentsInserted == Len(store)

\* in how many places datagram id is: queued, being inserted, inserted,
\* failed
Copies(id) ==
    Cardinality({d \in chan : d.id = id}) + Attempts(id)

C16_AsStated ==
    [][last' # last =>
          IF last'.method = "POST" /\ UrlPath(last'.target) = P("message")
          THEN /\ nPosts' = nPosts + 1
               /\ last'.relay.called /\ last'.relay.id = nPosts'
               /\ last'.relay.payload = ReadBody(ContentLength(last'.cl), last'.body)
               /\ chan' \subseteq chan \cup {[id |-> nPosts', payload |-> last'.relay.payload]}
               /\ store' = store
          ELSE /\ nPosts' = nPosts /\ ~last'.relay.called
               /\ chan' = chan /\ sent' = sent /\ store' = store]_vars

(***************************************************************************)
(* C17 as stated: every GET and POST handled got one response, with status *)
(* 200, 404 or 500 for a GET, 302 for a POST to /message, 404 or 500 for a *)
(* POST to another path; none is left unanswered.                          *)
(***************************************************************************)
C17_AsStated ==
    /\ Handled("GET") => last.resp.status \in {200, 404, 500}
    /\ (Handled("POST") /\ LastPath = P("message")) => last.resp.status = 302
    /\ (Handled("POST") /\ LastPath # P("message")) => last.resp.status \in {404, 500}

(***************************************************************************)
(* C18: when the file chosen for a response cannot be read, the response   *)
(* is 500 with no body.  A file of the route table that is missing or      *)
(* unreadable gives 500, not 404; so does an existing asset that cannot be *)
(* read; and the 404 handling gives 500 when the error page cannot be      *)
(* read.                                                                   *)
(***************************************************************************)
Is500(resp) == resp.status = 500 /\ resp.body = <<>> /\ resp.ctype = ""

\* the requests that end in the 404 handling
To404 ==
    \/ /\ Handled("GET")
       /\ ~HasNul(Names(LStrip(LastPath)))
       /\ \/ LastPath = P("error.html")
          \/ LastPath \notin RouteTablePaths
             /\ (NamesAsset(LastPath) => Last(Named(LastPath)) = <<"error.html">>)
    \/ Handled("POST") /\ LastPath # P("message")

C18_ReadFailureGives500 ==
    /\ ( /\ Handled("GET") /\ LastPath \in RouteTablePaths \ {P("error.html")}
         /\ ~Readable(Under(STATIC_DIR, RouteFile(LastPath))) )
          => Is500(last.resp)
    /\ ( /\ Handled("GET") /\ LastPath \notin RouteTablePaths
         /\ NamesAsset(LastPath) /\ Last(Named(LastPath)) # <<"error.html">>
         /\ ~Readable(Named(LastPath)) )
          => Is500(last.resp)
    /\ (To404 /\ ~Readable(ERROR_PAGE)) => Is500(last.resp)
    /\ (To404 /\ Readable(ERROR_PAGE)) => Is404(last.resp)

\* /style.css is missing and the error page is in place: 500, not 404
C18_Witness ==
    /\ Handled("GET") /\ LastPath = P("style.css")
    /\ ~IsFile(Under(STATIC_DIR, "style.css")) /\ Readable(ERROR_PAGE)
    /\ Is500(last.resp)

(***************************************************************************)
(* C19: a failed ping at startup is logged and the Receiver goes on to     *)
(* bind; once it waits for datagrams after a failed ping it stays in the   *)
(* loop.  While the store is unreachable an insert ends only by dropping   *)
(* the datagram (it is recorded as failed, the collection is unchanged,    *)
(* the loop waits again).  A datagram that is queued at the bound socket   *)
(* while the store is reachable is persisted, unless the store goes down   *)
(* again, the transport drops it or the program is stopped.                *)
(***************************************************************************)
PingFailed == rxLog = "cannot connect to mongodb"

C19_StartsAndRecovers ==
    /\ [][(rxPc = "start" /\ ~storeUp /\ rxPc' # rxPc /\ ~stopped')
              => (rxPc' = "bind" /\ PingFailed')]_vars
    /\ (PingFailed /\ rxPc = "bind") ~> (InLoop \/ rxPc = "crashed" \/ stopped)
    /\ [][(Inserting /\ ~storeUp /\ ~Inserting' /\ ~stopped')
              => /\ rxDoc.dg \in failed' /\ store' = store
                 /\ rxPc' = "recv" /\ Dropped(rxDoc.dg)']_vars
    /\ \A id \in Ids :
          (RxBound /\ storeUp /\ (\E d \in chan : d.id = id))
              ~> (Stored(id) = 1 \/ ~storeUp \/ stopped \/ id \in lost)
    /\ [](\A i \in 1..Len(store) : store[i].dg \notin failed)

\* the ping failed, the socket was bound, and a datagram is being inserted
\* while the store is still down
C19_Witness == PingFailed /\ Inserting /\ ~storeUp

====
